---- MODULE Spec2Model ----
(***************************************************************************)
(* Model of the document enrichment pipeline, the cache layer and the     *)
(* semantic search of app/api/documents.py, app/cache.py, app/ai_model/   *)
(* ai.py and app/admin/admin_access.py.                                    *)
(*                                                                         *)
(* Store  : docs (documents table), embeddings (embeddings table), nextId  *)
(* Cache  : cache (Redis keys with their value and TTL)                    *)
(* Tasks  : task (one process_document_background call per uploaded doc,   *)
(*          with its position, its arguments and locals, the owner the     *)
(*          document was uploaded with and the generate_embedding calls)   *)
(* resp   : the response of the handler that has just returned             *)
(* prior  : per normalized query, the payload of the last search answered  *)
(*          since the last Embedding write / expiry of its entry           *)
(* sumprior: per whitespace-collapsed text, the summary the last           *)
(*          generate_summary call returned since a summary entry expired   *)
(* backend: whether the Redis backend answers reads and writes             *)
(* written: per key, the value last passed to set_cache and still stored   *)
(* lru    : per lazy loader, the object its lru_cache holds                 *)
(* constructed: per lazy loader, the models constructed so far             *)
(* caller : per worker thread, its position in a call of a lazy loader     *)
(* pending: the search that has ranked in the Store and not yet cached and  *)
(*          returned its response                                          *)
(***************************************************************************)
EXTENDS Integers, Sequences, FiniteSets, TLC

VARIABLES docs, embeddings, nextId, cache, task, resp, prior, sumprior,
          backend, written, lru, constructed, caller, pending

vars == <<docs, embeddings, nextId, cache, task, resp, prior, sumprior,
          backend, written, lru, constructed, caller, pending>>

\* the variables the handlers of the API and the enrichment task leave alone
aux == <<backend, written, lru, constructed, caller, pending>>

\* ----------------------------------------------------------------- bounds
\* documents uploaded in one behaviour
MaxDocs == 2
\* words of a summarizer output, and of the first 200 characters of a chunk
SummaryOutWords == 45
HeadWords == 30
\* worker threads that call a model loader
MaxThreads == 2
\* named arguments of one generate_cache_key call
MaxKwargs == 2
\* sentences of a text given to chunk_text on its own
MaxSentences == 3
\* chunks of the text whose chunk summaries fail one by one
MaxChunks == 6
\* documents uploaded one after another for the ranking of a search, and
\* how many of the first of them may be far from the query
MaxRows == 11
MaxFarRows == 2

\* ------------------------------------------------------ program constants
MAX_INPUT_WORDS == 3000
CHUNK_MAX_WORDS == 300
MIN_CHUNK_WORDS == 30
REDIS_CACHE_TTL == 3600
EMPTY_TTL == 300
DOCUMENT_TTL == 900
SUMMARY_TTL == 86400
SEARCH_LIMIT == 10
COMPRESS_OVER_WORDS == 250
COMPRESS_FALLBACK_WORDS == 200
\* the relevance floor 0.2 and the unit of a similarity: 1 = 0.00001
SIM_FLOOR == 20000

None == "None"

\* ------------------------------------------------------------------ users
\* rows of the users table: an ordinary user and an administrator
Users == {1, 3}

Role(u) == IF u = 3 THEN "admin" ELSE "user"

Username(u) == <<"user", u>>

\* ------------------------------------------------------------------ texts
\* A text is its sentences (the word count of each, in order) and its
\* whitespace: pad = 1 when it has leading, trailing or repeated whitespace.
\* Words are never empty, so a text is blank iff it has no sentence.
ShortNote == [sents |-> <<2>>, pad |-> 0]

ShortNotePadded == [sents |-> <<2>>, pad |-> 1]

Article == [sents |-> <<40>>, pad |-> 0]

LongReport == [sents |-> <<MAX_INPUT_WORDS + 1>>, pad |-> 0]

Blank == [sents |-> <<>>, pad |-> 1]

\* the empty string
EmptyText == [sents |-> <<>>, pad |-> 0]

Texts == {ShortNote, ShortNotePadded, Article, LongReport, Blank}

\* the texts of the ranking scenario: its n-th document is near the query
\* (n + 2 words) or far from it (n + 16 words)
NearText(n) == [sents |-> <<n + 2>>, pad |-> 0]

FarText(n) == [sents |-> <<n + 16>>, pad |-> 0]

RankTexts == {NearText(n) : n \in 1..MaxRows} \cup {FarText(n) : n \in 1..MaxRows}

RECURSIVE SumSeq(_)
SumSeq(s) == IF s = <<>> THEN 0 ELSE Head(s) + SumSeq(Tail(s))

\* len(text.split())
WordCount(text) == SumSeq(text.sents)

\* a text that is never taken for blank
NeverBlank(text) == FALSE

\* not text.strip()
IsBlank(text) == WordCount(text) = 0

\* " ".join(text.strip().split())
CollapseWhitespace(text) == [text EXCEPT !.pad = 0]

\* the first n words of a sentence list: whole sentences, then a cut one
RECURSIVE TakeWords(_, _)
TakeWords(s, n) ==
    IF s = <<>> \/ n = 0 THEN <<>>
    ELSE IF Head(s) <= n THEN <<Head(s)>> \o TakeWords(Tail(s), n - Head(s))
    ELSE <<n>>

\* words = text.split(); " ".join(words[:MAX_INPUT_WORDS]) when longer
Truncate(text) ==
    IF WordCount(text) > MAX_INPUT_WORDS
    THEN [sents |-> TakeWords(text.sents, MAX_INPUT_WORDS), pad |-> 0]
    ELSE text

\* hashlib.md5(normalized).hexdigest(): the digest stands for its input
get_text_hash(text) == CollapseWhitespace(text)

\* chunk_text: sentences accumulate while they fit the budget
RECURSIVE ChunkLoop(_, _, _, _)
ChunkLoop(sents, current, count, max_words) ==
    IF sents = <<>>
    THEN IF current # <<>> THEN <<current>> ELSE <<>>
    ELSE LET w == Head(sents) IN
         IF count + w <= max_words
         THEN ChunkLoop(Tail(sents), Append(current, w), count + w, max_words)
         ELSE (IF current # <<>> THEN <<current>> ELSE <<>>)
              \o ChunkLoop(Tail(sents), <<w>>, w, max_words)

\* a chunking that puts every sentence in a chunk of its own
ChunkPerSentence(text, max_words) ==
    [i \in 1..Len(text.sents) |-> <<text.sents[i]>>]

chunk_text(text, max_words) == ChunkLoop(text.sents, <<>>, 0, max_words)

\* ------------------------------------------------------------- cache keys
\* decimal digits of a positive integer: str(doc_id)
RECURSIVE Digits(_)
Digits(n) ==
    LET d == <<"0", "1", "2", "3", "4", "5", "6", "7", "8", "9">>[(n % 10) + 1]
    IN  IF n < 10 THEN <<d>> ELSE Append(Digits(n \div 10), d)

\* md5 hex digests of generate_cache_key("document", document_id=d, user_id=u)
DocumentDigest(d, u) ==
    CASE d = 1 /\ u = 1 ->
        <<"4","3","8","7","e","a","3","1","e","d","6","e","3","5","a","1","1","3","5","c","9","a","8","8","0","2","3","5","4","2","e","b">>
      [] d = 1 /\ u = 2 ->
        <<"2","f","5","4","7","4","1","8","5","6","3","0","c","b","8","f","7","4","8","d","8","1","a","6","f","6","c","9","b","c","2","f">>
      [] d = 1 /\ u = 3 ->
        <<"2","3","7","d","d","8","9","5","3","3","a","4","6","a","b","a","b","6","e","0","9","5","c","0","7","0","8","b","0","3","7","a">>
      [] d = 2 /\ u = 1 ->
        <<"a","c","0","a","b","d","1","1","4","6","b","9","a","8","4","b","b","1","a","c","2","5","b","c","9","e","b","a","f","c","5","0">>
      [] d = 2 /\ u = 2 ->
        <<"b","3","1","5","7","2","1","f","5","7","c","b","9","7","e","9","7","7","8","8","9","4","3","b","7","b","0","d","3","7","6","8">>
      [] d = 2 /\ u = 3 ->
        <<"9","9","9","f","f","2","3","1","2","2","4","e","7","9","7","1","4","1","6","e","9","a","a","7","d","1","d","2","2","f","c","5">>
      [] d = 3 /\ u = 1 ->
        <<"6","d","8","7","1","a","4","4","5","6","5","6","d","1","8","8","1","4","a","f","a","9","4","4","5","a","b","1","1","e","a","e">>
      [] d = 3 /\ u = 2 ->
        <<"0","2","c","3","2","e","0","6","6","5","5","e","f","4","e","e","3","a","5","3","5","d","0","2","9","5","4","9","7","4","3","9">>
      [] d = 3 /\ u = 3 ->
        <<"a","b","e","4","e","e","e","2","1","7","2","7","f","9","1","0","2","0","b","0","1","1","b","5","4","7","0","4","2","4","d","b">>
      [] d = 4 /\ u = 1 ->
        <<"1","b","c","a","a","6","4","6","0","7","4","d","1","3","4","e","f","a","4","8","8","1","b","c","f","0","8","7","0","1","b","b">>
      [] d = 4 /\ u = 2 ->
        <<"4","f","d","3","3","7","0","d","6","f","d","3","d","e","4","a","d","4","5","7","2","1","6","7","f","e","b","5","d","b","7","9">>
      [] d = 4 /\ u = 3 ->
        <<"2","9","7","a","0","0","5","f","3","d","4","4","7","9","e","c","c","0","5","d","9","6","6","c","9","1","0","8","d","3","3","c">>

\* the needle occurs in the haystack as a contiguous run
Contains(hay, needle) ==
    \E i \in 0..(Len(hay) - Len(needle)) :
        \A j \in 1..Len(needle) : hay[i + j] = needle[j]

NoHash == [sents |-> <<>>, pad |-> 0]

\* generate_cache_key(prefix, **kwargs): "<prefix>:<md5 of the sorted kwargs>".
\* A key is kept as its prefix and the arguments its digest is made of.
generate_cache_key(prefix, document_id, user_id, query, text_hash) ==
    [prefix |-> prefix, document_id |-> document_id, user_id |-> user_id,
     query |-> query, text_hash |-> text_hash]

SearchKey(q) == generate_cache_key("search", 0, 0, q, NoHash)

\* a document key that does not tell the callers apart
DocumentKeyOfAnyUser(d, u) == generate_cache_key("document", d, 1, <<>>, NoHash)

DocumentKey(d, u) == generate_cache_key("document", d, u, <<>>, NoHash)

SummaryKey(h) == generate_cache_key("summary", 0, 0, <<>>, h)

\* ---- generate_cache_key over any call: positional args and named
\* arguments in the order they are passed (a sequence of <<name, value>>)
ArgNames == <<"document_id", "query", "text_hash", "user_id">>

\* the place of a name in the order sorted() puts the items in
NameRank(name) == CHOOSE i \in 1..Len(ArgNames) : ArgNames[i] = name

\* sorted(kwargs.items()): insertion of each item before the first item of
\* a greater name
RECURSIVE InsertItem(_, _)
InsertItem(item, sorted) ==
    IF sorted = <<>> THEN <<item>>
    ELSE IF NameRank(item[1]) < NameRank(Head(sorted)[1])
    THEN <<item>> \o sorted
    ELSE <<Head(sorted)>> \o InsertItem(item, Tail(sorted))

RECURSIVE InsertionSort(_)
InsertionSort(items) ==
    IF items = <<>> THEN <<>>
    ELSE InsertItem(items[Len(items)],
                    InsertionSort(SubSeq(items, 1, Len(items) - 1)))

\* kwargs.items() hashed in the order the caller passed them
ItemsAsPassed(kwargs) == kwargs

\* sorted(kwargs.items()) if kwargs else []
SortedItems(kwargs) == InsertionSort(kwargs)

\* key_data, and f"{prefix}:{md5(json.dumps(key_data, sort_keys=True))}": the
\* digest stands for the key_data it is made of
generate_cache_key_of(prefix, args, kwargs) ==
    [prefix |-> prefix,
     digest |-> [prefix |-> prefix, args |-> args,
                 kwargs |-> SortedItems(kwargs)]]

\* the hex digest in the key string; only a document key's digits are known
KeyDigest(key) ==
    IF key.prefix = "document"
    THEN DocumentDigest(key.document_id, key.user_id)
    ELSE <<>>

\* Redis KEYS glob "<prefix>:*<infix>*" against the key string "<prefix>:<hex>"
\* (the prefixes hold no digit, so the infix can only match inside the digest)
GlobMatches(prefix, infix, key) ==
    /\ key.prefix = prefix
    /\ infix = <<>> \/ Contains(KeyDigest(key), infix)

\* ---------------------------------------------------------- JSON (cache.py)
\* JSON text as the tree of its nodes
JStr(x) == [json |-> "string", s |-> x]

JNum(n) == [json |-> "number", n |-> n]

JNull == [json |-> "null"]

JArr(items) == [json |-> "array", items |-> items]

JObj(members) == [json |-> "object", members |-> members]

\* None: documents.summary IS NULL
PyNone == [of |-> [sents |-> <<>>, pad |-> 1], pieces |-> <<>>,
           final |-> "null", words |-> 0]

\* r.summary of a search row: None or a str
dumps_optional_str(x) == IF x = PyNone THEN JNull ELSE JStr(x)

\* one entry of "results": ints, a float and strs under str keys
dumps_result(r) ==
    JObj([id |-> JNum(r.id), summary |-> dumps_optional_str(r.summary),
          username |-> JStr(r.username), similarity |-> JNum(r.similarity)])

\* the response dict of semantic_search
dumps_payload(p) ==
    JObj([message |-> JStr(p.message),
          results |-> JArr([i \in DOMAIN p.results |-> dumps_result(p.results[i])])])

\* the response dict of get_document
dumps_view(v) ==
    JObj([id |-> JNum(v.id), summary |-> JStr(v.summary),
          status |-> JStr(v.status), uploaded_by |-> JStr(v.uploaded_by)])

\* json.dumps(value, default=str) of the values the handlers store: a search
\* response, a document response, a summary str
json_dumps(value) ==
    IF "results" \in DOMAIN value THEN dumps_payload(value)
    ELSE IF "uploaded_by" \in DOMAIN value THEN dumps_view(value)
    ELSE JStr(value)

\* json.loads(text)
RECURSIVE json_loads(_)
json_loads(j) ==
    CASE j.json = "string" -> j.s
      [] j.json = "number" -> j.n
      [] j.json = "null" -> PyNone
      [] j.json = "array" -> [i \in DOMAIN j.items |-> json_loads(j.items[i])]
      [] j.json = "object" ->
            [f \in DOMAIN j.members |-> json_loads(j.members[f])]

\* ------------------------------------------------- cache backend (cache.py)
\* backend.read: the GET or KEYS of the call in progress reaches Redis;
\* backend.write: its SETEX or DEL does.  A call that does not reach Redis
\* finds no client (get_redis_client returns None after the failed ping) or
\* has the client raise one of BackendErrors.
BackendErrors == {"ConnectionError", "TimeoutError"}

\* redis.exceptions: the classes an error is an instance of
ClassesOf(e) ==
    CASE e = "ConnectionError" -> {"ConnectionError", "RedisError", "Exception"}
      [] e = "TimeoutError" -> {"TimeoutError", "RedisError", "Exception"}
      [] OTHER -> {e, "Exception"}

CacheFunctions == {"get_cache", "set_cache", "delete_cache", "delete_cache_pattern"}

\* an except clause that names the decoding and encoding errors only
HandledCodecOnly(fn) == {"JSONDecodeError", "TypeError"}

\* the classes the except clause of a cache function names
Handled(fn) ==
    CASE fn = "get_cache" -> {"RedisError", "JSONDecodeError"}
      [] fn = "set_cache" -> {"RedisError", "TypeError"}
      [] OTHER -> {"RedisError"}

\* the call of fn lets an error of the backend out
CacheCallRaises(fn, reaches) ==
    /\ ~reaches
    /\ \E e \in BackendErrors : ClassesOf(e) \cap Handled(fn) = {}

\* the stored JSON text handed back without json.loads
get_cache_text(c, key) ==
    IF backend.read /\ key \in DOMAIN c THEN c[key].value ELSE None

\* get_cache(key): json.loads of the stored text, or None on a miss and when
\* the backend is not reached
get_cache(c, key) ==
    IF backend.read /\ key \in DOMAIN c THEN json_loads(c[key].value) ELSE None

CacheHit(c, key) == backend.read /\ key \in DOMAIN c

\* set_cache(key, value, ttl): ttl or settings.REDIS_CACHE_TTL, then SETEX of
\* the JSON text; nothing when the backend is not reached
\* ttl = ttl or settings.REDIS_CACHE_TTL
EffectiveTtl(ttl, configured) == IF ttl = 0 THEN configured ELSE ttl

\* (SETEX refuses an expire time that is not positive: a RedisError, caught)
set_cache_under(c, key, value, ttl, configured) ==
    LET t == EffectiveTtl(ttl, configured)
        e == [value |-> json_dumps(value), ttl |-> t]
    IN  IF backend.write /\ t > 0
        THEN [k \in DOMAIN c \cup {key} |-> IF k = key THEN e ELSE c[k]]
        ELSE c

\* set_cache with REDIS_CACHE_TTL left at its default
set_cache(c, key, value, ttl) ==
    set_cache_under(c, key, value, ttl, REDIS_CACHE_TTL)

\* delete_cache(key)
delete_cache(c, key) ==
    IF backend.write THEN [k \in DOMAIN c \ {key} |-> c[k]] ELSE c

\* the pattern taken as the name of one key (delete_cache in place of
\* delete_cache_pattern): no stored key is named like a pattern
delete_cache_literal(c, prefix, infix) == c

\* delete_cache_pattern(pattern): KEYS, then DEL of every key the glob matches
delete_cache_pattern(c, prefix, infix) ==
    IF backend.read /\ backend.write
    THEN [k \in {x \in DOMAIN c : ~GlobMatches(prefix, infix, x)} |-> c[k]]
    ELSE c

\* ---------------------------------------------------------------- queries
\* a query is its characters
Queries == {<<"a">>, <<"A", " ">>, <<" ">>}

IsSpace(ch) == ch = " "

RECURSIVE LStrip(_)
LStrip(s) == IF s # <<>> /\ IsSpace(Head(s)) THEN LStrip(Tail(s)) ELSE s

RECURSIVE RStrip(_)
RStrip(s) ==
    IF s # <<>> /\ IsSpace(s[Len(s)]) THEN RStrip(SubSeq(s, 1, Len(s) - 1)) ELSE s

\* str.strip()
Strip(s) == RStrip(LStrip(s))

LowerChar(ch) == CASE ch = "A" -> "a" [] ch = "B" -> "b" [] OTHER -> ch

\* str.lower()
Lower(s) == [i \in 1..Len(s) |-> LowerChar(s[i])]

\* query.strip().lower()
NormalizeQuery(q) == Lower(Strip(q))

\* ------------------------------------------------------------ similarity
\* generate_embedding(text): the vector stands for the text it encodes
generate_embedding(text) == [of |-> text]

\* 1 - cosine distance of the query vector and a document vector, in units
\* of 0.00001.  The table fixes one value per (query, text) pair.
Similarity(qvec, dvec) ==
    LET q == qvec.of
        w == WordCount(dvec.of)
    IN  CASE q = <<"a">> /\ w = 2 -> 85000
          [] q = <<"a">> /\ w > 2 /\ w < 40 -> 90000 - 5000 * w
          [] q = <<"a">> /\ w = 40 -> 20003
          [] q = <<"a">> /\ w > 40 -> 20000
          [] q = <<"A", " ">> /\ w = 2 -> 61236
          [] q = <<"A", " ">> /\ w = 40 -> 61234
          [] q = <<"A", " ">> /\ w > 40 -> 0 - 3125
          [] OTHER -> 12000

\* round(x, 4) of a value in 0.00001 units, in 0.0001 units (half to even)
Round4(s) ==
    LET q == s \div 10
        r == s % 10
    IN  IF r < 5 THEN q
        ELSE IF r > 5 THEN q + 1
        ELSE IF q % 2 = 0 THEN q ELSE q + 1

\* ---------------------------------------------------------- summarization
\* What the summarizer does during one generate_summary call: whether
\* get_summarizer() loads, whether the per-chunk calls and the compression
\* call return.
\* failing: the chunks (by position) whose call raises although others return.
SummarizerEnvs ==
    { [loads |-> TRUE, chunk_ok |-> TRUE, final_ok |-> TRUE, failing |-> {}],
      [loads |-> FALSE, chunk_ok |-> FALSE, final_ok |-> FALSE, failing |-> {}] }

\* the summarizer call of chunk i returns
ChunkOk(env, i) == env.chunk_ok /\ i \notin env.failing

Min(a, b) == IF a < b THEN a ELSE b

\* the loop over the chunks: short chunks verbatim, the others summarized,
\* chunk[:200] when the summarizer raises
ChunkSummaries(chunks, env) ==
    [i \in 1..Len(chunks) |->
        LET chunk_words == SumSeq(chunks[i]) IN
        IF chunk_words < MIN_CHUNK_WORDS
        THEN [how |-> "verbatim", words |-> chunk_words]
        ELSE IF ChunkOk(env, i)
        THEN [how |-> "model", words |-> SummaryOutWords]
        ELSE [how |-> "head200", words |-> Min(chunk_words, HeadWords)]]

RECURSIVE PieceWords(_)
PieceWords(ps) == IF ps = <<>> THEN 0 ELSE Head(ps).words + PieceWords(Tail(ps))

\* a compression pass over every concatenation
CompressionAlways(final_words) == TRUE

\* if final_words > 250
CompressionRuns(final_words) == final_words > COMPRESS_OVER_WORDS

\* " ".join(summaries) and the final compression
FinalSummary(text, summaries, env) ==
    LET final_words == PieceWords(summaries) IN
    IF CompressionRuns(final_words)
    THEN IF env.final_ok
         THEN [of |-> text, pieces |-> summaries, final |-> "compressed",
               words |-> SummaryOutWords]
         ELSE [of |-> text, pieces |-> summaries, final |-> "first200",
               words |-> Min(final_words, COMPRESS_FALLBACK_WORDS)]
    ELSE [of |-> text, pieces |-> summaries, final |-> "joined",
          words |-> final_words]

\* some chunk, or the concatenation, is handed to the summarizer
NeedsModel(chunks) ==
    \/ \E i \in 1..Len(chunks) : SumSeq(chunks[i]) >= MIN_CHUNK_WORDS
    \/ CompressionRuns(PieceWords(ChunkSummaries(chunks,
                           [chunk_ok |-> TRUE, failing |-> {}])))

\* the key generate_summary looks up before generating
SummaryLookupKey(text) == SummaryKey(get_text_hash(text))

\* the key generate_summary stores under: text has been reassigned to the
\* truncated text by then
SummaryStoreKey(text) == SummaryKey(get_text_hash(Truncate(text)))

EmptySummary == [of |-> Blank, pieces |-> <<>>, final |-> "joined", words |-> 0]

\* generate_summary(text) against cache c: the outcome, the value returned,
\* the cache afterwards and what the call did
generate_summary(c, text, env) ==
    LET lookup == SummaryLookupKey(text)
        cut == Truncate(text)
        chunks == chunk_text(cut, CHUNK_MAX_WORDS)
        summary == FinalSummary(cut, ChunkSummaries(chunks, env), env)
        store == SummaryStoreKey(text)
    IN  IF IsBlank(text)
        THEN [raised |-> FALSE, value |-> EmptySummary, cache |-> c,
              hit |-> FALSE, loaded |-> FALSE, invoked |-> FALSE,
              stored |-> FALSE, lookup |-> lookup, store |-> store,
              cache_calls |-> 0]
        ELSE IF CacheHit(c, lookup) /\ get_cache(c, lookup).words > 0
        THEN [raised |-> FALSE, value |-> get_cache(c, lookup), cache |-> c,
              hit |-> TRUE, loaded |-> FALSE, invoked |-> FALSE,
              stored |-> FALSE, lookup |-> lookup, store |-> store,
              cache_calls |-> 1]
        ELSE IF ~env.loads
        THEN [raised |-> TRUE, value |-> EmptySummary, cache |-> c,
              hit |-> FALSE, loaded |-> FALSE, invoked |-> FALSE,
              stored |-> FALSE, lookup |-> lookup, store |-> store,
              cache_calls |-> 1]
        ELSE [raised |-> FALSE, value |-> summary,
              cache |-> set_cache(c, store, summary, SUMMARY_TTL),
              hit |-> FALSE, loaded |-> TRUE, invoked |-> NeedsModel(chunks),
              stored |-> TRUE, lookup |-> lookup, store |-> store,
              cache_calls |-> 2]

\* ------------------------------------------------------------------ state
\* documents.summary IS NULL
NullSummary == PyNone

StatusProcessing == "processing"

StatusCompleted == "completed"

\* f"completed (embedding save failed: {str(embedding_save_error)})"
StatusDegraded == "completed (embedding save failed: <error>)"

\* f"failed: {type(e).__name__}: {str(e)}" for the exception e that reached
\* the outer handler
StatusFailed(err) ==
    CASE err = "summary" -> "failed: Exception: Summary generation failed: <error>"
      [] err = "embedding" -> "failed: Exception: Embedding generation failed: <error>"
      [] err = "cache" -> "failed: ConnectionError: <error>"
      [] err = "read" -> "failed: OperationalError: <error>"
      [] OTHER -> "failed: StaleDataError: <error>"

IsFailed(st) == st \in {StatusFailed("summary"), StatusFailed("embedding"),
                        StatusFailed("cache"), StatusFailed("read"),
                        StatusFailed("commit")}

IsCompleted(st) == st \in {StatusCompleted, StatusDegraded}

IsTerminal(st) == IsFailed(st) \/ IsCompleted(st)

\* if len(error_msg) > 500
STATUS_MAX_CHARS == 500

\* error_msg[:497]
STATUS_KEPT_CHARS == 497

\* len(str(e)) of the exception raised by the failing step: a short message
\* and one longer than a status may be
ErrorChars == {40, 600}

\* len(type(e).__name__) of the exception that reached the outer handler:
\* "Exception", "ConnectionError", "OperationalError", "StaleDataError"
TypeNameChars(err) ==
    CASE err \in {"summary", "embedding"} -> 9
      [] err = "cache" -> 15
      [] err = "read" -> 16
      [] OTHER -> 14

\* len() of the text the inner handlers put before str(e) when they raise
\* again: "Summary generation failed: ", "Embedding generation failed: "
WrapChars(err) ==
    CASE err = "summary" -> 27
      [] err = "embedding" -> 29
      [] OTHER -> 0

\* a status written as formatted, whatever its length
WrittenAsIs(chars) == [chars |-> chars, truncated |-> FALSE, marker |-> FALSE]

\* if len(error_msg) > 500: error_msg = error_msg[:497] + "..."
Truncated(chars) ==
    IF chars > STATUS_MAX_CHARS
    THEN [chars |-> STATUS_KEPT_CHARS + 3, truncated |-> TRUE, marker |-> TRUE]
    ELSE WrittenAsIs(chars)

\* the status of the outer handler for an exception whose message has n
\* characters: f"failed: {type(e).__name__}: {str(e)}", then truncated
FailedStatusText(err, n) ==
    Truncated(8 + TypeNameChars(err) + 2 + WrapChars(err) + n)

\* the status of step 4's handler for an exception whose message has n
\* characters: f"completed (embedding save failed: {str(e)})", assigned to
\* doc.status as formatted
DegradedStatusText(n) == WrittenAsIs(34 + n + 1)

\* the write of a status that carries a diagnostic
StatusWrite(d, status, text) ==
    [kind |-> "status_write", document_id |-> d, status |-> status,
     chars |-> text.chars, truncated |-> text.truncated,
     marker |-> text.marker]

NoResp == [kind |-> "none"]

NoPayload == [message |-> "<none>", results |-> <<>>]

NoVector == [of |-> Blank]

\* normalized forms of the non-blank queries, and of the non-blank texts
QueryKeys == {NormalizeQuery(q) : q \in {x \in Queries : Strip(x) # <<>>}}

TextHashes ==
    {get_text_hash(t) : t \in {x \in Texts : ~IsBlank(x)} \cup RankTexts}

\* the two lazily loaded models, and the worker threads that call them
Loaders == {"get_summarizer", "get_embedding_model"}

Threads == 1..MaxThreads

\* a model object is the number of its construction; 0: no object
NoObject == 0

\* no search is between its ranking query and its set_cache call
NoPending == [pc |-> "idle"]

Init ==
    /\ docs = <<>>
    /\ embeddings = {}
    /\ nextId = 1
    /\ cache = <<>>
    /\ task = <<>>
    /\ resp = NoResp
    /\ prior = [k \in QueryKeys |-> NoPayload]
    /\ sumprior = [h \in TextHashes |-> NullSummary]
    /\ backend = [read |-> TRUE, write |-> TRUE]
    /\ written = <<>>
    /\ lru = [m \in Loaders |-> NoObject]
    /\ constructed = [m \in Loaders |-> 0]
    /\ caller = [t \in Threads |-> [pc |-> "idle", fn |-> None, obj |-> NoObject]]
    /\ pending = NoPending

\* f extended or overwritten at x
Put(f, x, v) == [k \in DOMAIN f \cup {x} |-> IF k = x THEN v ELSE f[k]]

\* f without x
Drop(f, x) == [k \in DOMAIN f \ {x} |-> f[k]]

\* ----------------------------------------------------------------- upload
\* upload_document with a text that is empty after strip(): 400
UploadBlank(u, text) ==
    /\ IsBlank(text)
    /\ resp' = [kind |-> "upload", code |-> 400]
    /\ UNCHANGED <<docs, embeddings, nextId, cache, task, prior, sumprior>>
    /\ UNCHANGED aux

\* the column default of documents.status
UploadStatusDefault == "pending"

\* status="processing" of the Document upload_document creates
UploadStatus == StatusProcessing

\* an id handed out again
ReusedDocumentId(n) == n

\* documents.id, a serial primary key: the id after n
NextDocumentId(n) == n + 1

\* upload_document: the Document row is committed with status "processing"
\* and process_document_background is queued for it
UploadDocumentUpTo(u, text, cap) ==
    /\ ~IsBlank(text)
    /\ nextId <= cap
    /\ docs' = Put(docs, nextId,
                   [user_id |-> u, content |-> text, summary |-> NullSummary,
                    status |-> UploadStatus])
    /\ task' = Put(task, nextId,
                   [pc |-> "summary", text |-> text, user_id |-> u,
                    summary |-> NullSummary, vector |-> NoVector, err |-> "",
                    embedding_calls |-> 0, rows_added |-> 0])
    /\ nextId' = NextDocumentId(nextId)
    /\ resp' = [kind |-> "upload", code |-> 201, document_id |-> nextId,
                status |-> "processing"]
    /\ UNCHANGED <<embeddings, cache, prior, sumprior>>
    /\ UNCHANGED aux

\* upload_document while fewer than MaxDocs documents were uploaded
UploadDocument(u, text) == UploadDocumentUpTo(u, text, MaxDocs)

\* ------------------------------------------------ process_document_background
\* the summary exception swallowed: the task goes on to the embedding
AfterSummaryContinues(raised) == "embedding"

\* where the task continues after generate_summary: its exception is
\* re-raised as "Summary generation failed: ..." to the outer handler
AfterSummary(raised) == IF raised THEN "except" ELSE "embedding"

\* step 1: summary = generate_summary(text); an exception goes to the handler
TaskSummary(d, env) ==
    /\ d \in DOMAIN task
    /\ task[d].pc = "summary"
    /\ LET r == generate_summary(cache, task[d].text, env)
           h == get_text_hash(task[d].text)
       IN  /\ cache' = r.cache
           /\ task' = [task EXCEPT
                         ![d].pc = AfterSummary(r.raised),
                         ![d].summary = r.value,
                         ![d].err = IF r.raised THEN "summary" ELSE ""]
           /\ sumprior' = IF r.raised THEN sumprior
                          ELSE [sumprior EXCEPT ![h] = r.value]
           /\ resp' = [kind |-> "generate_summary", document_id |-> d,
                       text |-> task[d].text, raised |-> r.raised,
                       value |-> r.value, hit |-> r.hit, invoked |-> r.invoked,
                       loaded |-> r.loaded, stored |-> r.stored,
                       lookup |-> r.lookup, store |-> r.store,
                       before |-> sumprior[h]]
    /\ UNCHANGED <<docs, embeddings, nextId, prior>>
    /\ UNCHANGED aux

\* the embedding exception swallowed: the task goes on to store what it has
AfterEmbeddingContinues(ok) == "update"

\* where the task continues after generate_embedding: its exception is
\* re-raised as "Embedding generation failed: ..." to the outer handler
AfterEmbedding(ok) == IF ok THEN "update" ELSE "except"

\* step 2: embedding_vector = generate_embedding(text); an exception goes to
\* the handler
TaskEmbedding(d, ok) ==
    /\ d \in DOMAIN task
    /\ task[d].pc = "embedding"
    /\ task' = [task EXCEPT
                  ![d].pc = AfterEmbedding(ok),
                  ![d].vector = IF ok THEN generate_embedding(task[d].text)
                                ELSE NoVector,
                  ![d].err = IF ok THEN "" ELSE "embedding",
                  ![d].embedding_calls = 1]
    /\ resp' = NoResp
    /\ UNCHANGED <<docs, embeddings, nextId, cache, prior, sumprior>>
    /\ UNCHANGED aux

\* step 3: the document is read; when it is gone the task returns, otherwise
\* summary and status "completed" are committed and the keys matching
\* "document:*<doc_id>*" are deleted (an exception of that call would go to
\* the outer handler)
TaskUpdate(d) ==
    /\ d \in DOMAIN task
    /\ task[d].pc = "update"
    /\ IF d \in DOMAIN docs
       THEN /\ docs' = [docs EXCEPT ![d].summary = task[d].summary,
                                    ![d].status = StatusCompleted]
            /\ cache' = delete_cache_pattern(cache, "document", Digits(d))
            /\ task' = IF CacheCallRaises("delete_cache_pattern",
                                          backend.read /\ backend.write)
                       THEN [task EXCEPT ![d].pc = "except", ![d].err = "cache"]
                       ELSE [task EXCEPT ![d].pc = "save"]
       ELSE /\ task' = [task EXCEPT ![d].pc = "done"]
            /\ UNCHANGED <<docs, cache>>
    /\ resp' = NoResp
    /\ UNCHANGED <<embeddings, nextId, prior, sumprior>>
    /\ UNCHANGED aux

\* step 4, the Embedding row is added and committed: "search:*" is deleted
\* (inside the try: an exception of that call would be handled as a failed
\* save)
TaskSaveEmbedding(d) ==
    /\ d \in DOMAIN task
    /\ task[d].pc = "save"
    /\ d \in DOMAIN docs
    /\ embeddings' = embeddings \cup
                     {[document_id |-> d, embedding |-> task[d].vector]}
    /\ cache' = delete_cache_pattern(cache, "search", <<>>)
    /\ prior' = [k \in QueryKeys |-> NoPayload]
    /\ task' = [task EXCEPT ![d].pc = "done", ![d].rows_added = @ + 1]
    /\ docs' = IF CacheCallRaises("delete_cache_pattern",
                                  backend.read /\ backend.write)
               THEN [docs EXCEPT ![d].status = StatusDegraded]
               ELSE docs
    /\ resp' = [kind |-> "embedding_saved", document_id |-> d,
                deleted |-> Cardinality(DOMAIN cache) - Cardinality(DOMAIN cache')]
    /\ UNCHANGED <<nextId, sumprior>>
    /\ UNCHANGED aux

\* a session whose next commit writes the rows that were pending when the
\* commit failed
CommitsPending(committed, added) == committed \cup added

\* db.rollback(): the rows added to the session and not committed are dropped
Rollback(committed, added) == committed

\* step 4, adding or committing the Embedding row raises: rollback, then the
\* status "completed (embedding save failed: ...)" is committed
TaskSaveEmbeddingFails(d) ==
    /\ d \in DOMAIN task
    /\ task[d].pc = "save"
    /\ d \in DOMAIN docs
    /\ embeddings' = Rollback(embeddings,
                              {[document_id |-> d, embedding |-> task[d].vector]})
    /\ docs' = [docs EXCEPT ![d].status = StatusDegraded]
    /\ task' = [task EXCEPT ![d].pc = "done", ![d].err = "save"]
    /\ \E n \in ErrorChars :
           resp' = StatusWrite(d, StatusDegraded, DegradedStatusText(n))
    /\ UNCHANGED <<nextId, cache, prior, sumprior>>
    /\ UNCHANGED aux

\* step 4 after the document was deleted: the insert violates the foreign
\* key, the UPDATE of the status matches no row, and the exception of that
\* commit goes to the handler
TaskSaveEmbeddingGone(d) ==
    /\ d \in DOMAIN task
    /\ task[d].pc = "save"
    /\ d \notin DOMAIN docs
    /\ task' = [task EXCEPT ![d].pc = "except", ![d].err = "commit"]
    /\ resp' = NoResp
    /\ UNCHANGED <<docs, embeddings, nextId, cache, prior, sumprior>>
    /\ UNCHANGED aux

\* a session that is used again whatever failed in it
SessionAlwaysUsable(err) == TRUE

\* the session after the exception that reached the outer handler: a commit
\* that failed leaves its transaction inactive until rollback(), which the
\* handler does not call, so the handler's query raises
SessionUsable(err) == err # "commit"

\* the outer except: the document, when it still exists and the session can
\* be used, gets the status "failed: <type>: <message>"; an exception of the
\* handler's own query or commit is printed and dropped
TaskExcept(d) ==
    /\ d \in DOMAIN task
    /\ task[d].pc = "except"
    /\ docs' = IF d \in DOMAIN docs /\ SessionUsable(task[d].err)
               THEN [docs EXCEPT ![d].status = StatusFailed(task[d].err)]
               ELSE docs
    /\ task' = [task EXCEPT ![d].pc = "done"]
    /\ IF d \in DOMAIN docs /\ SessionUsable(task[d].err)
       THEN \E n \in ErrorChars :
                resp' = StatusWrite(d, StatusFailed(task[d].err),
                                    FailedStatusText(task[d].err, n))
       ELSE resp' = NoResp
    /\ UNCHANGED <<embeddings, nextId, cache, prior, sumprior>>
    /\ UNCHANGED aux

\* ----------------------------------------- the task with a failing Store
\* step 3 with the Store failing: the read of the document (at = "read") or
\* the commit of summary and status (at = "commit") raises, nothing is
\* stored and the exception goes to the outer handler
TaskUpdateFails(d, at) ==
    /\ d \in DOMAIN task
    /\ task[d].pc = "update"
    /\ d \in DOMAIN docs
    /\ task' = [task EXCEPT ![d].pc = "except", ![d].err = at]
    /\ resp' = NoResp
    /\ UNCHANGED <<docs, embeddings, nextId, cache, prior, sumprior>>
    /\ UNCHANGED aux

\* step 4 with the Store failing: saving the Embedding row raises, the
\* session is rolled back, and the commit of the status "completed
\* (embedding save failed: ...)" raises too: that exception goes to the
\* outer handler
TaskStatusCommitFails(d) ==
    /\ d \in DOMAIN task
    /\ task[d].pc = "save"
    /\ d \in DOMAIN docs
    /\ task' = [task EXCEPT ![d].pc = "except", ![d].err = "commit"]
    /\ resp' = NoResp
    /\ UNCHANGED <<docs, embeddings, nextId, cache, prior, sumprior>>
    /\ UNCHANGED aux

\* the outer except with the Store failing: the handler's query or commit
\* raises, the exception is printed and dropped, the task ends
TaskExceptFails(d) ==
    /\ d \in DOMAIN task
    /\ task[d].pc = "except"
    /\ task' = [task EXCEPT ![d].pc = "done"]
    /\ resp' = NoResp
    /\ UNCHANGED <<docs, embeddings, nextId, cache, prior, sumprior>>
    /\ UNCHANGED aux

\* ----------------------------------------------------------------- search
\* FROM documents d JOIN embeddings e ON d.id = e.document_id JOIN users u
JoinedRows == {e \in embeddings : e.document_id \in DOMAIN docs}

\* ORDER BY e.embedding <=> :query_vector: every order of the rows in which
\* the distance never decreases (rows at the same distance come in any order)
RECURSIVE OrderByDistance(_, _)
OrderByDistance(rows, qvec) ==
    IF rows = {} THEN {<<>>}
    ELSE UNION { { <<m>> \o t : t \in OrderByDistance(rows \ {m}, qvec) } :
                 m \in { x \in rows : \A y \in rows :
                           Similarity(qvec, x.embedding) >=
                           Similarity(qvec, y.embedding) } }

\* a ranking query without LIMIT
NoLimit(rows, n) == rows

\* LIMIT 10
Limit(rows, n) == SubSeq(rows, 1, Min(Len(rows), n))

\* the rows of the result that pass float(r.similarity) > 0.2, in order
RECURSIVE Filtered(_, _)
Filtered(rows, qvec) ==
    IF rows = <<>> THEN <<>>
    ELSE LET r == Head(rows)
             sim == Similarity(qvec, r.embedding)
         IN  (IF sim > SIM_FLOOR
              THEN << [id |-> r.document_id,
                       summary |-> docs[r.document_id].summary,
                       username |-> Username(docs[r.document_id].user_id),
                       similarity |-> Round4(sim)] >>
              ELSE <<>>) \o Filtered(Tail(rows), qvec)

\* the response built from the fetched rows, and the TTL it is cached with
\* (0: the default of set_cache)
SearchResponse(results, qvec) ==
    IF results = <<>>
    THEN [payload |-> [message |-> "No results found", results |-> <<>>],
          ttl |-> EMPTY_TTL]
    ELSE IF Filtered(results, qvec) = <<>>
    THEN [payload |-> [message |-> "No relevant results found", results |-> <<>>],
          ttl |-> EMPTY_TTL]
    ELSE [payload |-> [message |-> "", results |-> Filtered(results, qvec)],
          ttl |-> 0]

\* the cache key made of the query as typed
SearchCacheKeyRaw(query) == SearchKey(query)

\* the cache key of a search: the query stripped and lowered
SearchCacheKey(query) == SearchKey(NormalizeQuery(query))

\* semantic_search with a query that is empty after strip(): 400
SearchBlank(u, query) ==
    /\ Strip(query) = <<>>
    /\ resp' = [kind |-> "search_error", code |-> 400,
                detail |-> "Query cannot be empty", query |-> query,
                cache_lookups |-> 0, embedding_calls |-> 0,
                store_queries |-> 0, cache_writes |-> 0]
    /\ UNCHANGED <<docs, embeddings, nextId, cache, task, prior, sumprior>>
    /\ UNCHANGED aux

\* semantic_search answered from the cache
SearchHit(u, query) ==
    /\ Strip(query) # <<>>
    /\ CacheHit(cache, SearchCacheKey(query))
    /\ resp' = [kind |-> "search", query |-> query,
                payload |-> get_cache(cache, SearchCacheKey(query)),
                embedding |-> "not called",
                from_cache |-> TRUE, embedding_calls |-> 0,
                store_queries |-> 0, cache_writes |-> 0,
                before |-> prior[NormalizeQuery(query)]]
    /\ prior' = [prior EXCEPT ![NormalizeQuery(query)] =
                     get_cache(cache, SearchCacheKey(query))]
    /\ UNCHANGED <<docs, embeddings, nextId, cache, task, sumprior>>
    /\ UNCHANGED aux

\* what generate_embedding(query) gives semantic_search: a vector, an empty
\* list, or an exception
EmbeddingOutcomes == {"vector", "empty", "raises"}

\* a search that ranks with whatever the embedding call gave
AlwaysRanks(outcome) == "rank"

\* after query_embedding = generate_embedding(query): an exception goes to
\* the outer handler (500), an empty vector raises HTTPException(500), a
\* vector goes on to the ranking
AfterQueryEmbedding(outcome) ==
    IF outcome = "vector" THEN "rank" ELSE "http500"

\* the detail of the 500 of a search whose embedding call failed
EmbeddingFailureDetail(outcome) ==
    IF outcome = "empty" THEN "Failed to generate query embedding"
    ELSE "Search failed: <embedding error>"

\* the responses semantic_search builds from the Store for a query
FreshResponses(query) ==
    {SearchResponse(Limit(ordered, SEARCH_LIMIT), generate_embedding(query)) :
        ordered \in OrderByDistance(JoinedRows, generate_embedding(query))}

\* semantic_search on a miss, generate_embedding(query) raises or returns
\* an empty list: 500, before the Store is queried or the cache written
SearchEmbeddingFails(u, query, outcome) ==
    /\ Strip(query) # <<>>
    /\ ~CacheHit(cache, SearchCacheKey(query))
    /\ outcome # "vector"
    /\ IF AfterQueryEmbedding(outcome) = "http500"
       THEN /\ resp' = [kind |-> "search_error", code |-> 500,
                        detail |-> EmbeddingFailureDetail(outcome)]
            /\ UNCHANGED <<cache, prior>>
       ELSE \E r \in FreshResponses(query) :
            /\ cache' = set_cache(cache, SearchCacheKey(query), r.payload, r.ttl)
            /\ resp' = [kind |-> "search", query |-> query,
                        payload |-> r.payload, embedding |-> outcome,
                        from_cache |-> FALSE, embedding_calls |-> 1,
                        store_queries |-> 1, cache_writes |-> 1,
                        before |-> prior[NormalizeQuery(query)]]
            /\ prior' = [prior EXCEPT ![NormalizeQuery(query)] = r.payload]
    /\ UNCHANGED <<docs, embeddings, nextId, task, sumprior>>
    /\ UNCHANGED aux

\* semantic_search on a miss: embed the query, rank in the Store, filter,
\* cache the response and return it (an exception of get_cache or set_cache
\* would reach the outer handler: 500)
SearchMiss(u, query) ==
    /\ Strip(query) # <<>>
    /\ ~CacheHit(cache, SearchCacheKey(query))
    /\ IF \/ CacheCallRaises("get_cache", backend.read)
          \/ CacheCallRaises("set_cache", backend.write)
       THEN /\ resp' = [kind |-> "search_error", code |-> 500,
                        detail |-> "Search failed: <cache error>"]
            /\ UNCHANGED <<cache, prior>>
       ELSE \E r \in FreshResponses(query) :
            /\ cache' = set_cache(cache, SearchCacheKey(query), r.payload, r.ttl)
            /\ resp' = [kind |-> "search", query |-> query,
                        payload |-> r.payload, embedding |-> "vector",
                        snapshot |-> JoinedRows,
                        from_cache |-> FALSE, embedding_calls |-> 1,
                        store_queries |-> 1, cache_writes |-> 1,
                        before |-> prior[NormalizeQuery(query)]]
            /\ prior' = [prior EXCEPT ![NormalizeQuery(query)] = r.payload]
    /\ UNCHANGED <<docs, embeddings, nextId, task, sumprior>>
    /\ UNCHANGED aux

\* ---- semantic_search on a miss, in the two steps another thread can come
\* between.  First step: the query is embedded and the Store ranks; the
\* handler holds the response it built from the rows it read.
SearchRank(u, query) ==
    /\ Strip(query) # <<>>
    /\ ~CacheHit(cache, SearchCacheKey(query))
    /\ pending.pc = "idle"
    /\ \E r \in FreshResponses(query) :
           pending' = [pc |-> "ranked", query |-> query, payload |-> r.payload,
                       ttl |-> r.ttl, snapshot |-> JoinedRows]
    /\ resp' = NoResp
    /\ UNCHANGED <<docs, embeddings, nextId, cache, task, prior, sumprior>>
    /\ UNCHANGED <<backend, written, lru, constructed, caller>>

\* second step: set_cache(cache_key, response) and return
SearchStore(u) ==
    /\ pending.pc = "ranked"
    /\ cache' = set_cache(cache, SearchCacheKey(pending.query), pending.payload,
                          pending.ttl)
    /\ resp' = [kind |-> "search", query |-> pending.query,
                payload |-> pending.payload, embedding |-> "vector",
                snapshot |-> pending.snapshot,
                from_cache |-> FALSE, embedding_calls |-> 1,
                store_queries |-> 1, cache_writes |-> 1,
                before |-> prior[NormalizeQuery(pending.query)]]
    /\ prior' = [prior EXCEPT ![NormalizeQuery(pending.query)] = pending.payload]
    /\ pending' = NoPending
    /\ UNCHANGED <<docs, embeddings, nextId, task, sumprior>>
    /\ UNCHANGED <<backend, written, lru, constructed, caller>>

\* ------------------------------------------------------------ get_document
\* the text shown in place of a NULL or empty summary
SummaryNotAvailable ==
    [of |-> Blank, pieces |-> <<>>, final |-> "Summary not available yet.",
     words |-> 0]

\* the response dict of get_document for user u (the status is never empty)
DocumentView(d, u) ==
    [id |-> d,
     summary |-> IF docs[d].summary.words = 0 THEN SummaryNotAvailable
                 ELSE docs[d].summary,
     status |-> docs[d].status,
     uploaded_by |-> Username(docs[d].user_id)]

\* get_document answered from the cache
GetDocumentHit(u, d) ==
    /\ CacheHit(cache, DocumentKey(d, u))
    /\ resp' = [kind |-> "document", code |-> 200, user |-> u, document_id |-> d,
                view |-> get_cache(cache, DocumentKey(d, u)),
                from_cache |-> TRUE]
    /\ UNCHANGED <<docs, embeddings, nextId, cache, task, prior, sumprior>>
    /\ UNCHANGED aux

\* get_document on a miss: 404 without the row, 403 for a user who is
\* neither the owner nor an admin
GetDocumentRefused(u, d) ==
    /\ ~CacheHit(cache, DocumentKey(d, u))
    /\ \/ d \notin DOMAIN docs
       \/ d \in DOMAIN docs /\ docs[d].user_id # u /\ Role(u) # "admin"
    /\ resp' = [kind |-> "document_error", user |-> u, document_id |-> d,
                code |-> IF d \notin DOMAIN docs THEN 404 ELSE 403]
    /\ UNCHANGED <<docs, embeddings, nextId, cache, task, prior, sumprior>>
    /\ UNCHANGED aux

\* get_document on a miss: the view is cached for 900 s and returned (an
\* exception of get_cache or set_cache would leave the handler: 500)
GetDocumentMiss(u, d) ==
    /\ ~CacheHit(cache, DocumentKey(d, u))
    /\ d \in DOMAIN docs
    /\ docs[d].user_id = u \/ Role(u) = "admin"
    /\ IF \/ CacheCallRaises("get_cache", backend.read)
          \/ CacheCallRaises("set_cache", backend.write)
       THEN /\ resp' = [kind |-> "document_error", user |-> u,
                        document_id |-> d, code |-> 500]
            /\ UNCHANGED cache
       ELSE /\ cache' = set_cache(cache, DocumentKey(d, u), DocumentView(d, u),
                                  DOCUMENT_TTL)
            /\ resp' = [kind |-> "document", code |-> 200, user |-> u,
                        document_id |-> d, view |-> DocumentView(d, u),
                        from_cache |-> FALSE]
    /\ UNCHANGED <<docs, embeddings, nextId, task, prior, sumprior>>
    /\ UNCHANGED aux

\* ---------------------------------------------------------- delete_summary
\* admin delete_summary: the Document row is deleted; the relationship has no
\* delete cascade, so the session sets document_id of its Embedding to NULL
DeleteSummary(u, d) ==
    /\ Role(u) = "admin"
    /\ d \in DOMAIN docs
    /\ docs' = Drop(docs, d)
    /\ embeddings' = {IF e.document_id = d
                      THEN [e EXCEPT !.document_id = 0] ELSE e : e \in embeddings}
    /\ resp' = [kind |-> "delete", code |-> 200, document_id |-> d]
    /\ UNCHANGED <<nextId, cache, task, prior, sumprior>>
    /\ UNCHANGED aux

\* ------------------------------------------------------------------ expiry
\* the TTL of a key runs out
Expire(key) ==
    /\ key \in DOMAIN cache
    /\ cache' = Drop(cache, key)
    /\ prior' = IF key.prefix = "search"
                THEN [prior EXCEPT ![key.query] = NoPayload] ELSE prior
    /\ sumprior' = IF key.prefix = "summary"
                   THEN [h \in TextHashes |-> NullSummary] ELSE sumprior
    /\ written' = [k \in DOMAIN written \ {key} |-> written[k]]
    /\ resp' = NoResp
    /\ UNCHANGED <<docs, embeddings, nextId, task>>
    /\ UNCHANGED <<backend, lru, constructed, caller, pending>>

\* ------------------------------------------------ the backend comes and goes
\* Redis becomes unreachable or reachable again, between any two calls of one
\* handler
BackendChanges(read, write) ==
    /\ backend' = [read |-> read, write |-> write]
    /\ backend' # backend
    /\ resp' = NoResp
    /\ UNCHANGED <<docs, embeddings, nextId, cache, task, prior, sumprior>>
    /\ UNCHANGED <<written, lru, constructed, caller, pending>>

\* ------------------------------------------------ calls of the cache functions
\* a summary the summarizer made of the article
ArticleSummary ==
    [of |-> Article, pieces |-> <<[how |-> "model", words |-> SummaryOutWords]>>,
     final |-> "joined", words |-> SummaryOutWords]

\* keys the handlers make, each with values of the kind stored under it
CacheCalls ==
    {[key |-> SearchKey(<<"a">>), value |-> v] :
        v \in {[message |-> "No results found", results |-> <<>>],
               [message |-> "",
                results |-> <<[id |-> 1, summary |-> ArticleSummary,
                               username |-> Username(1), similarity |-> 2000]>>],
               [message |-> "",
                results |-> <<[id |-> 2, summary |-> PyNone,
                               username |-> Username(3), similarity |-> 8500],
                              [id |-> 1, summary |-> ArticleSummary,
                               username |-> Username(1), similarity |-> 2000]>>]}}
    \cup
    {[key |-> DocumentKey(1, 1), value |-> v] :
        v \in {[id |-> 1, summary |-> SummaryNotAvailable,
                status |-> StatusProcessing, uploaded_by |-> Username(1)],
               [id |-> 1, summary |-> ArticleSummary,
                status |-> StatusCompleted, uploaded_by |-> Username(1)]}}
    \cup
    {[key |-> SummaryKey(get_text_hash(Article)), value |-> ArticleSummary]}

CacheKeys == {call.key : call \in CacheCalls}

\* set_cache(key, value, ttl); written remembers the value of a write that
\* reached the backend
SetCache(key, value, ttl) ==
    /\ cache' = set_cache(cache, key, value, ttl)
    /\ written' = IF backend.write
                  THEN [k \in DOMAIN written \cup {key} |->
                           IF k = key THEN value ELSE written[k]]
                  ELSE written
    /\ resp' = [kind |-> "set_cache", key |-> key,
                returned |-> backend.write,
                raised |-> CacheCallRaises("set_cache", backend.write)]
    /\ UNCHANGED <<docs, embeddings, nextId, task, prior, sumprior>>
    /\ UNCHANGED <<backend, lru, constructed, caller, pending>>

\* settings.REDIS_CACHE_TTL: the default, and values set in the environment
\* or in .env
ConfiguredTtls == {REDIS_CACHE_TTL, 120, 0}

\* the ttl argument of the handler's set_cache call that stores call.value
\* under call.key: 300 for a search without results, none for a search
\* with results, 900 for a document view, 86400 for a summary
WriteTtl(call) ==
    IF call.key.prefix = "search"
    THEN IF call.value.results = <<>> THEN EMPTY_TTL ELSE 0
    ELSE IF call.key.prefix = "document" THEN DOCUMENT_TTL
    ELSE SUMMARY_TTL

\* one set_cache call of a handler in a process configured with
\* REDIS_CACHE_TTL = configured
HandlerWrite(call, configured) ==
    /\ cache' = set_cache_under(cache, call.key, call.value, WriteTtl(call),
                                configured)
    /\ written' = IF backend.write /\ EffectiveTtl(WriteTtl(call), configured) > 0
                  THEN [k \in DOMAIN written \cup {call.key} |->
                           IF k = call.key THEN call.value ELSE written[k]]
                  ELSE written
    /\ resp' = [kind |-> "handler_write", key |-> call.key,
                empty |-> call.key.prefix = "search" /\ call.value.results = <<>>,
                configured |-> configured,
                stored |-> backend.write /\
                           EffectiveTtl(WriteTtl(call), configured) > 0]
    /\ UNCHANGED <<docs, embeddings, nextId, task, prior, sumprior>>
    /\ UNCHANGED <<backend, lru, constructed, caller, pending>>

\* get_cache(key)
GetCache(key) ==
    /\ resp' = [kind |-> "get_cache", key |-> key,
                hit |-> CacheHit(cache, key),
                value |-> get_cache(cache, key),
                raised |-> CacheCallRaises("get_cache", backend.read)]
    /\ UNCHANGED <<docs, embeddings, nextId, cache, task, prior, sumprior>>
    /\ UNCHANGED aux

\* delete_cache(key)
DeleteCache(key) ==
    /\ cache' = delete_cache(cache, key)
    /\ written' = IF backend.write
                  THEN [k \in DOMAIN written \ {key} |-> written[k]]
                  ELSE written
    /\ resp' = [kind |-> "delete_cache", key |-> key,
                returned |-> backend.write,
                raised |-> CacheCallRaises("delete_cache", backend.write)]
    /\ UNCHANGED <<docs, embeddings, nextId, task, prior, sumprior>>
    /\ UNCHANGED <<backend, lru, constructed, caller, pending>>

\* delete_cache_pattern(f"{prefix}:*"): the number of keys deleted
DeleteCachePattern(prefix) ==
    /\ cache' = delete_cache_pattern(cache, prefix, <<>>)
    /\ written' = [k \in DOMAIN written \cap DOMAIN cache' |-> written[k]]
    /\ resp' = [kind |-> "delete_cache_pattern", prefix |-> prefix,
                returned |-> Cardinality(DOMAIN cache) - Cardinality(DOMAIN cache'),
                raised |-> CacheCallRaises("delete_cache_pattern",
                                           backend.read /\ backend.write)]
    /\ UNCHANGED <<docs, embeddings, nextId, task, prior, sumprior>>
    /\ UNCHANGED <<backend, lru, constructed, caller, pending>>

\* ------------------------------------- get_summarizer, get_embedding_model
\* @lru_cache(maxsize=1): the wrapper looks the key up; on a miss it calls the
\* function without holding a lock, then stores the result unless the key
\* was stored meanwhile, and returns the result of its own call.
\* lru[m]: the cached object; constructed[m]: objects built so far;
\* caller[t]: where thread t is in its call, and the object it was handed.

\* thread t (a search or an enrichment task) calls loader m: a hit returns
\* the cached object, a miss goes on to the function
LoaderLookup(t, m) ==
    /\ caller[t].pc = "idle"
    /\ caller' = [caller EXCEPT ![t] =
                    IF lru[m] # NoObject
                    THEN [pc |-> "idle", fn |-> m, obj |-> lru[m]]
                    ELSE [pc |-> "construct", fn |-> m, obj |-> NoObject]]
    /\ UNCHANGED <<docs, embeddings, nextId, cache, task, resp, prior, sumprior>>
    /\ UNCHANGED <<backend, written, lru, constructed, pending>>

\* the function body: pipeline(...) or SentenceTransformer(...) builds the
\* model, or raises and the call ends with nothing cached
LoaderConstruct(t, ok) ==
    /\ caller[t].pc = "construct"
    /\ LET m == caller[t].fn IN
       IF ok
       THEN /\ constructed' = [constructed EXCEPT ![m] = constructed[m] + 1]
            /\ caller' = [caller EXCEPT ![t].pc = "store",
                                        ![t].obj = constructed[m] + 1]
       ELSE /\ caller' = [caller EXCEPT ![t].pc = "idle"]
            /\ UNCHANGED constructed
    /\ UNCHANGED <<docs, embeddings, nextId, cache, task, resp, prior, sumprior>>
    /\ UNCHANGED <<backend, written, lru, pending>>

\* back in the wrapper: the result is cached unless another call cached one
\* during the construction, and the caller gets its own result
LoaderStore(t) ==
    /\ caller[t].pc = "store"
    /\ lru' = IF lru[caller[t].fn] = NoObject
              THEN [lru EXCEPT ![caller[t].fn] = caller[t].obj]
              ELSE lru
    /\ caller' = [caller EXCEPT ![t].pc = "idle"]
    /\ UNCHANGED <<docs, embeddings, nextId, cache, task, resp, prior, sumprior>>
    /\ UNCHANGED <<backend, written, constructed, pending>>

\* ------------------------------------------------- generate_cache_key calls
KeyPrefixes == {"search", "document"}

\* positional arguments, as str(args) shows them
KeyArgs == {<<>>, <<1>>}

\* the items a call can pass: a name with a value
KeyItems == {<<name, v>> : name \in {"document_id", "query", "user_id"},
                           v \in {1, 2}}

\* named arguments in passing order: no name twice
KeyKwargs ==
    UNION { { kw \in [1..n -> KeyItems] :
                \A i, j \in 1..n : i # j => kw[i][1] # kw[j][1] } :
            n \in 0..MaxKwargs }

Items(kwargs) == {kwargs[i] : i \in 1..Len(kwargs)}

NoKey == [prefix |-> "none"]

NoCall == [seen |-> FALSE, kwargs |-> <<>>, key |-> NoKey]

\* one call of generate_cache_key; the response remembers the call before it
\* when that passed the same prefix, positional args and named items
GenerateCacheKey(prefix, args, kwargs) ==
    /\ resp' = [kind |-> "cache_key", prefix |-> prefix, args |-> args,
                kwargs |-> kwargs,
                key |-> generate_cache_key_of(prefix, args, kwargs),
                before |-> IF /\ resp.kind = "cache_key"
                              /\ resp.prefix = prefix
                              /\ resp.args = args
                              /\ Items(resp.kwargs) = Items(kwargs)
                           THEN [seen |-> TRUE, kwargs |-> resp.kwargs,
                                 key |-> resp.key]
                           ELSE NoCall]
    /\ UNCHANGED <<docs, embeddings, nextId, cache, task, prior, sumprior>>
    /\ UNCHANGED aux

\* ---- chunk_text on its own: sentences of 1, 2, 3 or 5 words against
\* budgets of 2, 3 and 4 words (a sentence of 5 words exceeds each of them)
SentenceWords == {1, 2, 3, 5}

WordBudgets == {2, 3, 4}

SentenceLists ==
    UNION {[1..n -> SentenceWords] : n \in 0..MaxSentences}

\* one call chunk_text(text, max_words) of a text with the given sentences
ChunkText(sentences, max_words) ==
    /\ resp' = [kind |-> "chunk_text", sentences |-> sentences,
                max_words |-> max_words,
                chunks |-> chunk_text([sents |-> sentences, pad |-> 0],
                                      max_words)]
    /\ UNCHANGED <<docs, embeddings, nextId, cache, task, prior, sumprior>>
    /\ UNCHANGED aux

\* ---- generate_summary on its own, with a summarizer that loads and whose
\* calls fail one by one.  ManyChunks: sentences of 200 words, one of 290
\* and one of 20, which make MaxChunks chunks for the summarizer and a last
\* one below its minimum.
ManyChunks ==
    [sents |-> [i \in 1..(MaxChunks + 1) |->
                   IF i < MaxChunks THEN 200
                   ELSE IF i = MaxChunks THEN 290 ELSE 20],
     pad |-> 0]

CompressTexts == {ManyChunks}

FailurePatterns ==
    {[loads |-> TRUE, chunk_ok |-> TRUE, final_ok |-> f, failing |-> S] :
        f \in BOOLEAN, S \in SUBSET (1..MaxChunks)}

\* one call generate_summary(text); the response tells which summarizer
\* calls of this call raised (none are made on a cache hit)
SummaryCall(text, env) ==
    /\ LET r == generate_summary(cache, text, env)
           chunks == chunk_text(Truncate(text), CHUNK_MAX_WORDS)
       IN  /\ cache' = r.cache
           /\ resp' = [kind |-> "summary_call", text |-> text,
                       chunks |-> chunks,
                       raised |-> r.raised, value |-> r.value, hit |-> r.hit,
                       cache_calls |-> r.cache_calls, loaded |-> r.loaded,
                       invoked |-> r.invoked,
                       failed |-> IF r.hit THEN {}
                                  ELSE {i \in env.failing \cap 1..Len(chunks) :
                                           SumSeq(chunks[i]) >= MIN_CHUNK_WORDS},
                       final_ok |-> r.hit \/ env.final_ok]
    /\ UNCHANGED <<docs, embeddings, nextId, task, prior, sumprior>>
    /\ UNCHANGED aux

\* ------------------------------------------------------------------- spec
DocIds == 1..MaxDocs

\* the steps of process_document_background, delete_summary and the expiry
\* of cache keys
Enrichment ==
    \/ \E d \in DocIds, env \in SummarizerEnvs : TaskSummary(d, env)
    \/ \E d \in DocIds, ok \in BOOLEAN : TaskEmbedding(d, ok)
    \/ \E d \in DocIds : TaskUpdate(d)
    \/ \E d \in DocIds : TaskSaveEmbedding(d)
    \/ \E d \in DocIds : TaskSaveEmbeddingFails(d)
    \/ \E d \in DocIds : TaskSaveEmbeddingGone(d)
    \/ \E d \in DocIds : TaskExcept(d)
    \/ \E u \in Users, d \in DocIds : DeleteSummary(u, d)
    \/ \E k \in DOMAIN cache : Expire(k)

\* Enrichment alone: uploads by one user of one text (and of a blank one).
\* The steps of the task read nothing of the owner, and nothing of a text but
\* whether its summary is cached.
Next ==
    \/ \E t \in {ShortNote, Blank} : UploadBlank(1, t)
    \/ \E t \in {ShortNote, Blank} : UploadDocument(1, t)
    \/ Enrichment

Spec == Init /\ [][Next]_vars

\* Enrichment and get_document, with uploads by every user.  semantic_search
\* is left to SpecSearch: it writes only keys of the "search:" namespace,
\* which get_document and the "document:*<id>*" deletion never read or match.
\* Of the cache entries only those of the "document:" namespace expire here:
\* get_document reads no key but its own.  The summarizer loads: get_document
\* reads the summary and the status of a task that failed at its embedding or
\* at the Store as it reads those of one whose summary failed.
NextDocument ==
    \/ \E u \in Users, t \in {ShortNote, Blank} : UploadBlank(u, t)
    \/ \E u \in Users, t \in {ShortNote, Blank} : UploadDocument(u, t)
    \/ \E d \in DocIds, env \in {e \in SummarizerEnvs : e.loads} : TaskSummary(d, env)
    \/ \E d \in DocIds, ok \in BOOLEAN : TaskEmbedding(d, ok)
    \/ \E d \in DocIds : TaskUpdate(d)
    \/ \E d \in DocIds : TaskSaveEmbedding(d)
    \/ \E d \in DocIds : TaskSaveEmbeddingFails(d)
    \/ \E d \in DocIds : TaskSaveEmbeddingGone(d)
    \/ \E d \in DocIds : TaskExcept(d)
    \/ \E u \in Users, d \in DocIds : DeleteSummary(u, d)
    \/ \E k \in DOMAIN cache : k.prefix = "document" /\ Expire(k)
    \/ \E u \in Users, d \in DocIds : GetDocumentHit(u, d)
    \/ \E u \in Users, d \in DocIds : GetDocumentRefused(u, d)
    \/ \E u \in Users, d \in DocIds : GetDocumentMiss(u, d)

SpecDocument == Init /\ [][NextDocument]_vars

\* Enrichment and semantic_search.  Uploads and searches by one user: the
\* search joins the owner's name in and reads nothing else of the owner, and
\* nothing of the caller once authenticated.  get_document is left to
\* SpecDocument: it writes only "document:" keys, which semantic_search and
\* the "search:*" deletion never read or match.  Of the cache entries only
\* those of the "search:" namespace expire here: the entry of a summary
\* lives a day, and a search reads no key but its own.  The summarizer loads:
\* a task that fails does so at its embedding or at the Store, which leaves
\* the search the same rows as a failed summary does.
NextSearch ==
    \/ \E t \in {Article, Blank} : UploadBlank(1, t)
    \/ \E t \in {Article, Blank} : UploadDocument(1, t)
    \/ \E d \in DocIds, env \in {e \in SummarizerEnvs : e.loads} : TaskSummary(d, env)
    \/ \E d \in DocIds, ok \in BOOLEAN : TaskEmbedding(d, ok)
    \/ \E d \in DocIds : TaskUpdate(d)
    \/ \E d \in DocIds : TaskSaveEmbedding(d)
    \/ \E d \in DocIds : TaskSaveEmbeddingFails(d)
    \/ \E d \in DocIds : TaskSaveEmbeddingGone(d)
    \/ \E d \in DocIds : TaskExcept(d)
    \/ \E u \in Users, d \in DocIds : DeleteSummary(u, d)
    \/ \E k \in DOMAIN cache : k.prefix = "search" /\ Expire(k)
    \/ \E q \in Queries : SearchBlank(1, q)
    \/ \E q \in Queries : SearchHit(1, q)
    \/ \E q \in Queries, o \in EmbeddingOutcomes : SearchEmbeddingFails(1, q, o)
    \/ \E q \in Queries : SearchMiss(1, q)

SpecSearch == Init /\ [][NextSearch]_vars

\* Enrichment alone, over texts that differ in whitespace only and a text
\* beyond the word cap: the calls of generate_summary and the summary keys.
NextSummary ==
    \/ \E t \in Texts : UploadBlank(1, t)
    \/ \E t \in Texts : UploadDocument(1, t)
    \/ Enrichment

SpecSummary == Init /\ [][NextSummary]_vars

\* Calls of generate_cache_key alone.
NextKey ==
    \E prefix \in KeyPrefixes, args \in KeyArgs, kwargs \in KeyKwargs :
        GenerateCacheKey(prefix, args, kwargs)

SpecKey == Init /\ [][NextKey]_vars

\* Calls of chunk_text alone.
NextChunk ==
    \E sentences \in SentenceLists, max_words \in WordBudgets :
        ChunkText(sentences, max_words)

SpecChunk == Init /\ [][NextChunk]_vars

\* get_document by every user over documents of every user: uploads of one
\* text, each when the tasks before it have ended and by another user than
\* the one before, every step of the task succeeding, and delete_summary by
\* the admin.  Who may view a document
\* depends on its owner and on the caller, never on how its task ended nor on
\* the task of another document; the expiry of a view only takes an entry
\* away, as the invalidation of update_document_summary does here.
NextAccess ==
    \/ /\ \A d \in DOMAIN task : task[d].pc = "done"
       /\ \E u \in Users :
              /\ nextId > 1 => task[nextId - 1].user_id # u
              /\ UploadDocument(u, ShortNote)
    \/ \E d \in DocIds, env \in {e \in SummarizerEnvs : e.loads} :
           TaskSummary(d, env)
    \/ \E d \in DocIds : TaskEmbedding(d, TRUE)
    \/ \E d \in DocIds : TaskUpdate(d)
    \/ \E d \in DocIds : TaskSaveEmbedding(d)
    \/ \E u \in Users, d \in DocIds : DeleteSummary(u, d)
    \/ \E u \in Users, d \in DocIds : GetDocumentHit(u, d)
    \/ \E u \in Users, d \in DocIds : GetDocumentRefused(u, d)
    \/ \E u \in Users, d \in DocIds : GetDocumentMiss(u, d)

SpecAccess == Init /\ [][NextAccess]_vars

\* A search in two steps beside the enrichment tasks: uploads of one text,
\* every step of the task succeeding, and searches of one query.
NextRace ==
    \/ UploadDocument(1, Article)
    \/ \E d \in DocIds, env \in {e \in SummarizerEnvs : e.loads} :
           TaskSummary(d, env)
    \/ \E d \in DocIds : TaskEmbedding(d, TRUE)
    \/ \E d \in DocIds : TaskUpdate(d)
    \/ \E d \in DocIds : TaskSaveEmbedding(d)
    \/ SearchHit(1, <<"a">>)
    \/ SearchRank(1, <<"a">>)
    \/ SearchStore(1)

SpecRace == Init /\ [][NextRace]_vars

\* Blank inputs among the others: searches of every query and calls of
\* generate_summary with the empty string, a whitespace-only text and a
\* short note, while documents are uploaded and enriched and entries expire.
NextBlank ==
    \/ UploadDocument(1, ShortNote)
    \/ \E d \in DocIds, env \in {e \in SummarizerEnvs : e.loads} :
           TaskSummary(d, env)
    \/ \E d \in DocIds : TaskEmbedding(d, TRUE)
    \/ \E d \in DocIds : TaskUpdate(d)
    \/ \E d \in DocIds : TaskSaveEmbedding(d)
    \/ \E q \in Queries : SearchBlank(1, q)
    \/ \E q \in Queries : SearchHit(1, q)
    \/ \E q \in Queries : SearchMiss(1, q)
    \/ \E text \in {EmptyText, Blank, ShortNote}, env \in SummarizerEnvs :
           SummaryCall(text, env)
    \/ \E k \in DOMAIN cache : Expire(k)

SpecBlank == Init /\ [][NextBlank]_vars

\* The set_cache calls of the handlers under each configured default TTL,
\* with entries that expire.
NextTtl ==
    \/ \E call \in CacheCalls, configured \in ConfiguredTtls :
           HandlerWrite(call, configured)
    \/ \E k \in DOMAIN cache : Expire(k)

SpecTtl == Init /\ [][NextTtl]_vars

\* The ranking of a search over up to MaxRows embedded documents: documents
\* are uploaded one after another, each when the tasks before it have ended,
\* the first MaxFarRows near the query or far from it and the others near
\* it; every step of the task succeeds; the search of the query "a" comes at
\* any moment.
NextRanking ==
    \/ /\ \A d \in DOMAIN task : task[d].pc = "done"
       /\ \E t \in {NearText(nextId)} \cup
                   {FarText(n) : n \in {nextId} \cap 1..MaxFarRows} :
              UploadDocumentUpTo(1, t, MaxRows)
    \/ \E d \in 1..MaxRows, env \in {e \in SummarizerEnvs : e.loads} :
           TaskSummary(d, env)
    \/ \E d \in 1..MaxRows : TaskEmbedding(d, TRUE)
    \/ \E d \in 1..MaxRows : TaskUpdate(d)
    \/ \E d \in 1..MaxRows : TaskSaveEmbedding(d)
    \/ SearchHit(1, <<"a">>)
    \/ SearchMiss(1, <<"a">>)

SpecRanking == Init /\ [][NextRanking]_vars

\* Calls of generate_summary alone, under every pattern of failing
\* summarizer calls, with summary entries that expire.
NextCompress ==
    \/ \E text \in CompressTexts, env \in FailurePatterns :
           SummaryCall(text, env)
    \/ \E k \in DOMAIN cache : Expire(k)

SpecCompress == Init /\ [][NextCompress]_vars

\* The cache functions alone, over the keys and values of the handlers, with
\* a backend that comes and goes.
NextCache ==
    \/ \E call \in CacheCalls, ttl \in {0, EMPTY_TTL} :
          SetCache(call.key, call.value, ttl)
    \/ \E key \in CacheKeys : GetCache(key)
    \/ \E key \in CacheKeys : DeleteCache(key)
    \/ \E prefix \in {"search", "document"} : DeleteCachePattern(prefix)
    \/ \E key \in DOMAIN cache : Expire(key)
    \/ \E read, write \in BOOLEAN : BackendChanges(read, write)

SpecCache == Init /\ [][NextCache]_vars

\* The handlers and the task with a backend that comes and goes: one user,
\* one text, one query, and get_document of the first document.
NextOutage ==
    \/ UploadDocument(1, Article)
    \/ \E d \in DocIds, env \in SummarizerEnvs : TaskSummary(d, env)
    \/ \E d \in DocIds, ok \in BOOLEAN : TaskEmbedding(d, ok)
    \/ \E d \in DocIds : TaskUpdate(d)
    \/ \E d \in DocIds : TaskSaveEmbedding(d)
    \/ \E d \in DocIds : TaskExcept(d)
    \/ SearchHit(1, <<"a">>)
    \/ SearchMiss(1, <<"a">>)
    \/ GetDocumentHit(1, 1)
    \/ GetDocumentMiss(1, 1)
    \/ \E read, write \in BOOLEAN : BackendChanges(read, write)

SpecOutage == Init /\ [][NextOutage]_vars

\* The worker threads calling the two model loaders.
NextLoader ==
    \/ \E t \in Threads, m \in Loaders : LoaderLookup(t, m)
    \/ \E t \in Threads, ok \in BOOLEAN : LoaderConstruct(t, ok)
    \/ \E t \in Threads : LoaderStore(t)

SpecLoader == Init /\ [][NextLoader]_vars

\* Enrichment with a Store whose reads and commits can fail at any step of
\* the task.
NextStore ==
    \/ Next
    \/ \E d \in DocIds, at \in {"read", "commit"} : TaskUpdateFails(d, at)
    \/ \E d \in DocIds : TaskStatusCommitFails(d)
    \/ \E d \in DocIds : TaskExceptFails(d)

SpecStore == Init /\ [][NextStore]_vars

\* ================================================================= claims
\* the Embedding rows of document d
EmbeddingsOf(d) == {e \in embeddings : e.document_id = d}

\* C1: every attempt in which generate_summary returned and the embedding
\* step failed (generate_embedding raised, or saving the row failed) ends
\* with the degraded completed status, the generated non-empty summary stored
\* and no Embedding row.
C1_DegradedCompletion ==
    \A d \in DOMAIN task :
        (/\ task[d].pc = "done"
         /\ task[d].err \in {"embedding", "save"}
         /\ d \in DOMAIN docs)
        => /\ docs[d].status = StatusDegraded
           /\ docs[d].summary = task[d].summary
           /\ docs[d].summary.words > 0
           /\ EmbeddingsOf(d) = {}

StatusRank(st) ==
    IF st = StatusProcessing THEN 1 ELSE IF IsTerminal(st) THEN 2 ELSE 0

C4_TerminalStatusFinal ==
    [][\A d \in DOMAIN docs \cap DOMAIN docs' :
          IsTerminal(docs[d].status) => docs'[d].status = docs[d].status]_vars

\* C5: no get_document entry of an existing document shows a status or a
\* summary other than the one get_document builds from the Store (every
\* commit of the orchestrator removed the entries written before it).
C5_NoStaleDocumentEntry ==
    \A d \in DOMAIN docs, u \in Users :
        CacheHit(cache, DocumentKey(d, u))
        => get_cache(cache, DocumentKey(d, u)) = DocumentView(d, u)

\* C6: when the task has committed a new Embedding row, no key of the
\* "search:" namespace is left in the cache.
C6_SearchEntriesInvalidated ==
    resp.kind = "embedding_saved"
    => \A k \in DOMAIN cache : k.prefix # "search"

C6_Witness ==
    /\ resp.kind = "embedding_saved"
    /\ resp.deleted > 0
    /\ EmbeddingsOf(resp.document_id) # {}

\* C7: every document listed in a search response has an Embedding row in
\* the Store when the response is returned.
C7_ResultsHaveEmbedding ==
    resp.kind = "search"
    => \A i \in 1..Len(resp.payload.results) :
           EmbeddingsOf(resp.payload.results[i].id) # {}

\* C8: the similarity values of a search response (rounded to 4 decimals,
\* in units of 0.0001) never increase along the list and each is strictly
\* greater than 0.2.
C8_SimilarityOrderedAboveFloor ==
    resp.kind = "search"
    => LET rs == resp.payload.results IN
       /\ \A i \in 1..Len(rs) : rs[i].similarity * 10 > SIM_FLOOR
       /\ \A i \in 1..(Len(rs) - 1) : rs[i].similarity >= rs[i + 1].similarity

\* C9: a search whose normalized query was answered before, with no
\* Embedding written and no expiry of its entry since, returns the payload
\* of that answer from the cache: no generate_embedding call, no ranking
\* query, no cache write.
C9_RepeatedSearchFromCache ==
    (resp.kind = "search" /\ resp.before # NoPayload)
    => /\ resp.payload = resp.before
       /\ resp.from_cache
       /\ resp.embedding_calls = 0
       /\ resp.store_queries = 0
       /\ resp.cache_writes = 0

C9_Witness ==
    /\ resp.kind = "search"
    /\ resp.before # NoPayload
    /\ resp.query = <<"A", " ">>
    /\ resp.payload.results # <<>>

\* C10: a generate_summary call whose whitespace-collapsed input was
\* summarized before (no summary entry expired since) returns that summary
\* without the summarizer, and a call that stores its result stores it under
\* the key it looked up.
C10_SecondCallFromCache ==
    resp.kind = "generate_summary"
    => /\ resp.stored => resp.store = resp.lookup
       /\ resp.before # NullSummary =>
            /\ ~resp.raised
            /\ resp.value = resp.before
            /\ ~resp.invoked

\* C11: a generate_cache_key call that passes the prefix, the positional
\* arguments and the named items of the call before it, in any order of the
\* named items, returns the key that call returned.
C11_KeyIgnoresKwargOrder ==
    (resp.kind = "cache_key" /\ resp.before.seen)
    => resp.key = resp.before.key

C11_Witness ==
    /\ resp.kind = "cache_key"
    /\ resp.before.seen
    /\ Len(resp.kwargs) = 2
    /\ resp.kwargs # resp.before.kwargs

C12_WitnessUnavailable ==
    /\ resp.kind = "get_cache"
    /\ ~backend.read
    /\ resp.key \in DOMAIN written

\* the summary generate_summary makes of a text when nothing is cached and
\* the summarizer works
FreshSummary(text) ==
    generate_summary(<<>>, text,
                     [loads |-> TRUE, chunk_ok |-> TRUE, final_ok |-> TRUE,
                      failing |-> {}]).value

\* C13: with the backend not reached, the cache functions return a miss, the
\* cache as it was and no exception; semantic_search, get_document and
\* generate_summary answer as on a miss (the response built from the Store,
\* the summary generated), no handler fails over a cache error, and a task
\* that ends without a failure has written the completed status, its summary
\* and its Embedding row.
C13_CacheFailuresDegrade ==
    /\ ~CacheCallRaises("get_cache", backend.read)
    /\ ~CacheCallRaises("set_cache", backend.write)
    /\ ~CacheCallRaises("delete_cache", backend.write)
    /\ ~CacheCallRaises("delete_cache_pattern", backend.read /\ backend.write)
    /\ ~backend.read => \A k \in DOMAIN cache : get_cache(cache, k) = None
    /\ ~backend.write =>
         \A k \in DOMAIN cache :
            /\ set_cache(cache, k, NoPayload, 0) = cache
            /\ delete_cache(cache, k) = cache
            /\ delete_cache_pattern(cache, k.prefix, <<>>) = cache
    /\ resp.kind = "search_error" => resp.detail # "Search failed: <cache error>"
    /\ resp.kind = "document_error" => resp.code # 500
    /\ (resp.kind = "search" /\ ~backend.read)
         => /\ ~resp.from_cache
            /\ resp.payload \in {r.payload : r \in FreshResponses(resp.query)}
            /\ resp.embedding_calls = 1
            /\ resp.store_queries = 1
    /\ (resp.kind = "document" /\ ~backend.read)
         => /\ ~resp.from_cache
            /\ resp.view = DocumentView(resp.document_id, resp.user)
    /\ (resp.kind = "generate_summary" /\ ~backend.read)
         => /\ ~resp.hit
            /\ resp.raised \/ (resp.loaded /\ resp.value = FreshSummary(resp.text))
    /\ \A d \in DOMAIN task :
         /\ task[d].err # "cache"
         /\ (task[d].pc = "done" /\ task[d].err = "" /\ d \in DOMAIN docs)
              => /\ docs[d].status = StatusCompleted
                 /\ docs[d].summary = task[d].summary
                 /\ EmbeddingsOf(d) # {}

C13_Witness ==
    /\ ~backend.read
    /\ ~backend.write
    /\ resp.kind = "search"
    /\ resp.payload.results # <<>>
    /\ SearchCacheKey(resp.query) \in DOMAIN cache
    /\ \E d \in DOMAIN task : task[d].pc = "done" /\ task[d].err = ""

\* C14: each of the two models is constructed at most once, whatever the
\* interleaving of the threads that call its loader first.
C14_ConstructedAtMostOnce ==
    \A m \in Loaders : constructed[m] <= 1

\* C15: a step never starts a process_document_background task for a
\* document id that already has one: every task is queued once, by the
\* upload that created its document, so no two tasks work on one document.
C15_OneTaskPerDocument ==
    [][\A d \in DOMAIN task \cap DOMAIN task' :
          task'[d].pc = "summary" => task'[d] = task[d]]_vars

C15_Witness ==
    \E d \in DOMAIN task, e \in DOMAIN task :
        /\ d # e
        /\ task[d].pc \in {"embedding", "update", "save"}
        /\ task[e].pc \in {"embedding", "update", "save"}

\* C16: a task that has ended after a failure of one of its steps (summary,
\* embedding, a Store read or commit) has recorded it: its document, when it
\* still exists, is no longer "processing".
C16_FailureRecorded ==
    \A d \in DOMAIN task \cap DOMAIN docs :
        (task[d].pc = "done" /\ task[d].err # "")
        => docs[d].status # StatusProcessing

\* C19: a document with a stored summary has a completed status.
C19_SummaryOnlyWhenCompleted ==
    \A d \in DOMAIN docs :
        docs[d].summary # NullSummary => IsCompleted(docs[d].status)

C19_Witness ==
    \E d \in DOMAIN docs, e \in DOMAIN docs :
        /\ docs[d].summary # NullSummary
        /\ task[d].pc = "done"
        /\ task[d].err = "commit"
        /\ IsFailed(docs[e].status)
\* C17: every status of a document is "processing", "completed" or one of the
\* diagnostic forms, and every diagnostic status written has at most 500
\* characters and ends with the marker "..." when it was cut, the "failed:"
\* and the "completed (embedding save failed: ...)" values alike
C17_StatusBounded ==
    /\ \A d \in DOMAIN docs :
           \/ docs[d].status \in {StatusProcessing, StatusCompleted, StatusDegraded}
           \/ IsFailed(docs[d].status)
    /\ resp.kind = "status_write"
        => /\ resp.chars <= STATUS_MAX_CHARS
           /\ resp.truncated => resp.marker

\* C18: a search answered past the cache ranked with a vector of
\* generate_embedding, never with an empty list or after its exception, and
\* the step that ends a search with a 500 leaves every cache entry as it was
C18_EmbeddingFailureIs500 ==
    [][/\ (resp'.kind = "search" /\ ~resp'.from_cache)
           => resp'.embedding = "vector"
       /\ (resp'.kind = "search_error" /\ resp'.code = 500)
           => cache' = cache]_vars

\* a search ended with the 500 of an empty query vector while the Store
\* holds a row it would have ranked, and its key is not in the cache
C18_Witness ==
    /\ resp.kind = "search_error"
    /\ resp.code = 500
    /\ resp.detail = EmbeddingFailureDetail("empty")
    /\ JoinedRows # {}
    /\ \A q \in Queries :
           Strip(q) # <<>> => SearchCacheKey(q) \notin DOMAIN cache

\* C20: a document has at most one Embedding row, and a row that belongs to
\* a document (document_id is not NULL) holds the vector that
\* generate_embedding returned for the document's text in the one call of
\* its enrichment task
C20_OneEmbeddingFromSuccess ==
    /\ \A d \in DOMAIN task :
           /\ Cardinality(EmbeddingsOf(d)) <= task[d].rows_added
           /\ task[d].rows_added <= 1
    /\ \A e \in embeddings :
           e.document_id # 0
           => /\ e.document_id \in DOMAIN docs \cap DOMAIN task
              /\ task[e.document_id].embedding_calls = 1
              /\ task[e.document_id].err # "embedding"
              /\ e.embedding # NoVector
              /\ e.embedding = generate_embedding(docs[e.document_id].content)

\* one document has its row, and another, whose embedding call raised, has
\* ended without one
C20_Witness ==
    \E d, e \in DOMAIN task :
        /\ d \in DOMAIN docs
        /\ Cardinality(EmbeddingsOf(d)) = 1
        /\ task[e].pc = "done"
        /\ task[e].err = "embedding"
        /\ EmbeddingsOf(e) = {}

\* C21: generate_summary of a non-blank text that forms one chunk of fewer
\* than 30 words returns the text as it is, whether or not the summarizer
\* loads and without invoking it, and a call that generated its result has
\* stored it under the key of the text's content hash
C21_ShortTextVerbatim ==
    (/\ resp.kind = "generate_summary"
     /\ ~IsBlank(resp.text)
     /\ Len(chunk_text(Truncate(resp.text), CHUNK_MAX_WORDS)) = 1
     /\ WordCount(resp.text) < MIN_CHUNK_WORDS)
    => /\ ~resp.raised
       /\ ~resp.invoked
       /\ resp.value.final = "joined"
       /\ resp.value.words = WordCount(resp.text)
       /\ \A i \in 1..Len(resp.value.pieces) :
              resp.value.pieces[i].how = "verbatim"
       /\ ~resp.hit
          => /\ resp.stored
             /\ resp.store = SummaryKey(get_text_hash(resp.text))
             /\ CacheHit(cache, resp.store)
             /\ get_cache(cache, resp.store) = resp.value

\* the sentences of the chunks, in the order of the chunks
RECURSIVE Flatten(_)
Flatten(chunks) ==
    IF chunks = <<>> THEN <<>> ELSE Head(chunks) \o Flatten(Tail(chunks))

\* C22: the chunks of chunk_text, taken in order, are the sentences in their
\* order, each whole and once; no chunk is empty; a chunk over the budget is
\* one sentence; and a chunk ends only where the next sentence would have
\* taken it over the budget
C22_ChunksCoverSentences ==
    resp.kind = "chunk_text"
    => /\ Flatten(resp.chunks) = resp.sentences
       /\ \A i \in 1..Len(resp.chunks) :
              /\ resp.chunks[i] # <<>>
              /\ SumSeq(resp.chunks[i]) > resp.max_words
                 => Len(resp.chunks[i]) = 1
       /\ \A i \in 1..(Len(resp.chunks) - 1) :
              SumSeq(resp.chunks[i]) + Head(resp.chunks[i + 1]) > resp.max_words

\* a text chunked into a chunk of two sentences that fit the budget together
\* and a chunk of one sentence longer than the budget
C22_Witness ==
    /\ resp.kind = "chunk_text"
    /\ Len(resp.chunks) >= 2
    /\ \E i \in 1..Len(resp.chunks) :
           Len(resp.chunks[i]) >= 2 /\ SumSeq(resp.chunks[i]) <= resp.max_words
    /\ \E i \in 1..Len(resp.chunks) : SumSeq(resp.chunks[i]) > resp.max_words

\* C23: a generate_summary call whose summarizer calls fail in any pattern
\* returns; chunk by chunk, in the order of the chunks, its pieces are the
\* chunk itself below 30 words, the first 200 characters of a chunk whose
\* call raised, and the summarizer's output otherwise; the compression pass
\* runs exactly when the pieces have more than 250 words together, and when
\* it raises the result is the first 200 words of the concatenation
C23_FailuresNeverRaise ==
    resp.kind = "summary_call"
    => /\ ~resp.raised
       /\ ~resp.hit
          => /\ Len(resp.value.pieces) = Len(resp.chunks)
             /\ \A i \in 1..Len(resp.chunks) :
                    LET w == SumSeq(resp.chunks[i])
                        p == resp.value.pieces[i]
                    IN  /\ w < MIN_CHUNK_WORDS
                           => p.how = "verbatim" /\ p.words = w
                        /\ (w >= MIN_CHUNK_WORDS /\ i \in resp.failed)
                           => p.how = "head200" /\ p.words <= w
                        /\ (w >= MIN_CHUNK_WORDS /\ i \notin resp.failed)
                           => p.how = "model"
             /\ LET total == PieceWords(resp.value.pieces) IN
                /\ resp.value.final \in {"compressed", "first200"}
                   <=> total > 250
                /\ total <= 250
                   => resp.value.final = "joined" /\ resp.value.words = total
                /\ (total > 250 /\ ~resp.final_ok)
                   => resp.value.final = "first200" /\ resp.value.words = 200
                /\ (total > 250 /\ resp.final_ok)
                   => resp.value.final = "compressed"

\* a call in which one chunk's summarizer call raised and the compression
\* pass ran and raised
C23_Witness ==
    /\ resp.kind = "summary_call"
    /\ ~resp.hit
    /\ resp.failed # {}
    /\ ~resp.final_ok
    /\ resp.value.final = "first200"
    /\ \E i \in 1..Len(resp.value.pieces) : resp.value.pieces[i].how = "model"

\* the documents listed in a search payload
ListedIds(payload) == {payload.results[i].id : i \in 1..Len(payload.results)}

\* C24: a search response lists at most 10 documents and is the value stored
\* under the key of its query; a response computed from the Store lists,
\* once each, the embedded documents that are among the 10 nearest to the
\* query and more similar to it than 0.2, and it is the "No results found"
\* payload when no document is embedded and the "No relevant results found"
\* payload when none of the nearest passes the floor
C24_TopTenAboveFloor ==
    resp.kind = "search"
    => LET rs == resp.payload.results
           qvec == generate_embedding(resp.query)
           key == SearchCacheKey(resp.query)
           Sim(x) == Similarity(qvec, x.embedding)
       IN  /\ Len(rs) <= 10
           /\ CacheHit(cache, key)
           /\ get_cache(cache, key) = resp.payload
           /\ ~resp.from_cache
              => /\ Cardinality(ListedIds(resp.payload)) = Len(rs)
                 /\ \A x \in JoinedRows :
                        x.document_id \in ListedIds(resp.payload)
                        => /\ Sim(x) > SIM_FLOOR
                           /\ Cardinality({y \in JoinedRows : Sim(y) > Sim(x)}) < 10
                 /\ \A x \in JoinedRows :
                        x.document_id \notin ListedIds(resp.payload)
                        => \/ Sim(x) <= SIM_FLOOR
                           \/ Cardinality({y \in JoinedRows \ {x} :
                                              Sim(y) >= Sim(x)}) >= 10
                 /\ \A i \in ListedIds(resp.payload) :
                        \E x \in JoinedRows : x.document_id = i
                 /\ JoinedRows = {}
                    => resp.payload.message = "No results found"
                 /\ (JoinedRows # {} /\ rs = <<>>)
                    => resp.payload.message = "No relevant results found"
                 /\ rs # <<>> => resp.payload.message = ""

\* a search computed over more than 10 embedded documents lists 10 of them
\* and leaves out one that is more similar to the query than 0.2
C24_Witness ==
    /\ resp.kind = "search"
    /\ ~resp.from_cache
    /\ Len(resp.payload.results) = 10
    /\ \E x \in JoinedRows :
           /\ x.document_id \notin ListedIds(resp.payload)
           /\ Similarity(generate_embedding(resp.query), x.embedding) > SIM_FLOOR

\* C25: every cache entry expires; the entry of a search without results
\* has a TTL of 300 s, shorter than the TTL an entry of a search with
\* results gets (the configured default); the entry of a document view has
\* 900 s and the entry of a summary 86400 s
C25_TtlByClass ==
    /\ \A k \in DOMAIN cache : cache[k].ttl > 0
    /\ (resp.kind = "handler_write" /\ resp.stored)
       => LET t == cache[resp.key].ttl IN
          /\ (resp.key.prefix = "search" /\ resp.empty)
             => t = 300 /\ (resp.configured > 0 => t < resp.configured)
          /\ (resp.key.prefix = "search" /\ ~resp.empty)
             => t = resp.configured
          /\ resp.key.prefix = "document" => t = 900
          /\ resp.key.prefix = "summary" => t = 86400

\* C26: a search of an empty or whitespace-only query ends with 400 and has
\* looked nothing up in the cache, called no model, queried no Store and
\* written no cache entry, and only such a search ends with 400;
\* generate_summary of an empty or whitespace-only text returns the empty
\* string without a cache call, without loading or invoking the summarizer;
\* both steps leave the cache and the Store as they were
C26_BlankInputsTouchNothing ==
    [][/\ (resp'.kind = "search_error" /\ resp'.code = 400)
          => /\ Strip(resp'.query) = <<>>
             /\ resp'.cache_lookups = 0
             /\ resp'.embedding_calls = 0
             /\ resp'.store_queries = 0
             /\ resp'.cache_writes = 0
             /\ UNCHANGED <<cache, docs, embeddings>>
       /\ resp'.kind = "search" => Strip(resp'.query) # <<>>
       /\ (resp'.kind = "summary_call" /\ WordCount(resp'.text) = 0)
          => /\ ~resp'.raised
             /\ resp'.value = EmptySummary
             /\ resp'.cache_calls = 0
             /\ ~resp'.loaded
             /\ ~resp'.invoked
             /\ UNCHANGED <<cache, docs, embeddings>>]_vars

\* a whitespace-only text was given to generate_summary while the cache
\* holds entries and the Store a document
C26_Witness ==
    /\ resp.kind = "summary_call"
    /\ resp.text = Blank
    /\ resp.value = EmptySummary
    /\ DOMAIN cache # {}
    /\ DOMAIN docs # {}

\* C27: when a search has cached the response it computed, the entry under
\* its key was ranked over every Embedding row whose task has committed it
\* and returned from the "search:*" invalidation
C27_NoEntryFromOlderSnapshot ==
    (/\ resp.kind = "search"
     /\ ~resp.from_cache
     /\ CacheHit(cache, SearchCacheKey(resp.query)))
    => resp.snapshot = JoinedRows

\* user u owns document d (the owner it was uploaded with) or is an admin
MayView(u, d, tasks) == tasks[d].user_id = u \/ Role(u) = "admin"

\* C28: get_document answers 200, from the Store or from the cache, only to
\* the owner of the document or an admin; a call that ends with 403 or 404
\* leaves the cache as it was; and every entry of a document view is under
\* the key of a user who may view the document, the only user it is
\* returned to
C28_OnlyOwnerOrAdminViews ==
    [][/\ resp'.kind = "document"
          => /\ MayView(resp'.user, resp'.document_id, task')
             /\ resp'.view.id = resp'.document_id
       /\ resp'.kind = "document_error" => cache' = cache
       /\ \A k \in DOMAIN cache' :
              k.prefix = "document"
              => /\ MayView(k.user_id, k.document_id, task')
                 /\ json_loads(cache'[k].value).id = k.document_id]_vars

\* a user is refused a document (403) whose view is in the cache under the
\* key of another user
C28_Witness ==
    /\ resp.kind = "document_error"
    /\ resp.code = 403
    /\ \E u \in Users :
           /\ u # resp.user
           /\ DocumentKey(resp.document_id, u) \in DOMAIN cache

\* C29: a document with an Embedding row has the status "completed" and a
\* stored summary; a document whose status is "processing", a "failed: ..."
\* value or the degraded "completed (embedding save failed: ...)" value has
\* no Embedding row
C29_RowsOnlyOfCompleted ==
    \A d \in DOMAIN docs :
        /\ EmbeddingsOf(d) # {}
           => /\ docs[d].status = StatusCompleted
              /\ docs[d].summary # NullSummary
        /\ (\/ docs[d].status = UploadStatus
            \/ docs[d].status = StatusDegraded
            \/ IsFailed(docs[d].status))
           => EmbeddingsOf(d) = {}

\* one document has its Embedding row while the save of another failed and
\* left it degraded
C29_Witness ==
    \E d, f \in DOMAIN docs :
        /\ EmbeddingsOf(d) # {}
        /\ docs[f].status = StatusDegraded
        /\ task[f].err = "save"

\* C30: once delete_summary has removed a document, no get_document call
\* returns its data and no search response lists it, whatever was cached
\* before: the document of a 200 response of get_document, and every
\* document listed by a search response, is in the Store when the response
\* is returned
C30_DeletedNeverServed ==
    /\ resp.kind = "document" => resp.document_id \in DOMAIN docs
    /\ resp.kind = "search"
       => \A id \in ListedIds(resp.payload) : id \in DOMAIN docs

====
